---- MODULE Spec2Model ----
(***************************************************************************)
(* Model of gemini-url-context-tool: the `query` subcommand, the Core      *)
(* Client (GeminiClient, query_with_url_context) and the utilities         *)
(* (read_stdin, format_output, validate_prompt).                           *)
(*                                                                         *)
(* Encoding of Python values:                                              *)
(*   str            a sequence of characters (one-character strings);      *)
(*                  a literal of the source that is never taken apart is   *)
(*                  one element, e.g. <<"UNKNOWN">>                        *)
(*   None           the record None; a value that may be None is wrapped   *)
(*                  as Some(v)                                             *)
(*   list           a sequence                                             *)
(*   dict           a sequence of [k, v] members in insertion order        *)
(*   object         a record of its attributes; an attribute the object    *)
(*                  does not have is a field the record does not have      *)
(*   raise / return Raise(kind, msg, events) / Return(value, events),      *)
(*                  events being the calls made to the outside world       *)
(*   message        a sequence of fragments, as the f-string builds it     *)
(***************************************************************************)
EXTENDS Integers, Sequences, FiniteSets, TLC

VARIABLES
    prompt,          \* query(): PROMPT argument, then the resolved prompt
    stdin,           \* query(): --stdin flag
    no_search_tool,  \* query(): --no-search-tool flag
    verbose,         \* query(): --verbose flag
    text,            \* query(): --text flag
    environ,         \* os.environ.get("GEMINI_API_KEY")
    tty,             \* sys.stdin.isatty()
    stdin_data,      \* what sys.stdin.read() returns
    pc,              \* position in query(); "library" when used as a library
    out,             \* standard output: sequence of payloads
    err,             \* error stream: sequence of messages
    exit_code,       \* process exit code, -1 while running
    events,          \* calls made to the outside world, in order
    result,          \* query(): result of core_query
    exc,             \* query(): exception in flight
    client,          \* the GeminiClient instance
    argv,            \* the PROMPT argument as given on the command line
    call,            \* library use: the last call made
    ret              \* library use: what the last call returned or raised

vars == <<prompt, stdin, no_search_tool, verbose, text, environ, tty,
          stdin_data, pc, out, err, exit_code, events, result, exc, client,
          argv, call, ret>>

(***************************************************************************)
(* Bounds                                                                  *)
(***************************************************************************)
MaxLen == 4       \* longest string given to validate_prompt
MaxPromptLen == 1 \* longest PROMPT argument, stdin content and query prompt

(***************************************************************************)
(* Python values                                                           *)
(***************************************************************************)
None == [some |-> FALSE]
Some(x) == [some |-> TRUE, v |-> x]

Ev(op) == [op |-> op]

Raise(kind, msg, evs) == [raised |-> kind, msg |-> msg, events |-> evs]
Return(value, evs) == [raised |-> "none", value |-> value, events |-> evs]

\* Truthiness of an optional str or list: not None and not empty.
Truthy(o) == o.some /\ Len(o.v) > 0

hasattr(o, f) == o.some /\ f \in DOMAIN o.v
getattr(o, f, default) == IF hasattr(o, f) THEN o.v[f] ELSE default

Whitespace == {" ", "\t"}
Alphabet == Whitespace \cup {"a"}

RECURSIVE StringsOfLen(_)
StringsOfLen(n) ==
    IF n = 0 THEN {<<>>}
    ELSE {Append(s, c) : s \in StringsOfLen(n - 1), c \in Alphabet}

RECURSIVE StringsUpTo(_)
StringsUpTo(n) ==
    IF n = 0 THEN StringsOfLen(0)
    ELSE StringsUpTo(n - 1) \cup StringsOfLen(n)

Contains(msg, fragment) == \E i \in 1..Len(msg) : msg[i] = fragment

(***************************************************************************)
(* str.strip()                                                             *)
(***************************************************************************)
RECURSIVE lstrip(_)
lstrip(s) ==
    IF Len(s) > 0 /\ s[1] \in Whitespace THEN lstrip(Tail(s)) ELSE s

RECURSIVE rstrip(_)
rstrip(s) ==
    IF Len(s) > 0 /\ s[Len(s)] \in Whitespace
    THEN rstrip(SubSeq(s, 1, Len(s) - 1))
    ELSE s

\* Mutant: only the leading whitespace is removed.
strip_LeftOnly(s) == lstrip(s)

strip(s) == rstrip(lstrip(s))

\* `not prompt or not prompt.strip()`
IsBlank(p) == (~Truthy(p)) \/ Len(strip(p.v)) = 0

(***************************************************************************)
(* utils.py                                                                *)
(***************************************************************************)
validate_prompt(p) ==
    IF IsBlank(p)
    THEN Raise("ValueError",
               <<"Prompt cannot be empty", ".", "Provide a prompt:",
                 "Or read from stdin:">>, <<>>)
    ELSE Return(strip(p.v), <<>>)

\* Mutant: the input is only checked for being empty, not for being blank.
read_stdin_NoStrip(isatty, data) ==
    IF isatty
    THEN Raise("ValueError",
               <<"No input from stdin.", "Pipe input to the command:",
                 "Or provide prompt as argument:">>,
               <<Ev("stdin.isatty")>>)
    ELSE IF Len(data) = 0
    THEN Raise("ValueError",
               <<"Stdin input is empty.", "Provide non-empty input:">>,
               <<Ev("stdin.isatty"), Ev("stdin.read")>>)
    ELSE Return(strip(data), <<Ev("stdin.isatty"), Ev("stdin.read")>>)

read_stdin(isatty, data) ==
    IF isatty
    THEN Raise("ValueError",
               <<"No input from stdin.", "Pipe input to the command:",
                 "Or provide prompt as argument:">>,
               <<Ev("stdin.isatty")>>)
    ELSE IF IsBlank(Some(data))
    THEN Raise("ValueError",
               <<"Stdin input is empty.", "Provide non-empty input:">>,
               <<Ev("stdin.isatty"), Ev("stdin.read")>>)
    ELSE Return(strip(data), <<Ev("stdin.isatty"), Ev("stdin.read")>>)

HasKey(d, key) == \E i \in 1..Len(d) : d[i].k = key
ValueOf(d, key) == d[CHOOSE i \in 1..Len(d) : d[i].k = key].v

\* json.dumps(output, indent=2): a JSON document with the members of `output`
\* in insertion order; str, list, dict, int and None members are kept as they
\* are.
json_dumps(output, indent) ==
    [json |-> TRUE, indent |-> indent, members |-> output]

\* A str returned as it is.
PlainText(s) == [json |-> FALSE, text |-> s]

UrlMetaDict(url_meta) ==
    <<[k |-> "retrieved_url", v |-> url_meta.retrieved_url],
      [k |-> "url_retrieval_status", v |-> url_meta.url_retrieval_status]>>

\* Mutant: the URL metadata is included only in verbose mode.
format_output_UrlWhenVerbose(res, text_only, verbose_, search_enabled) ==
    IF text_only THEN PlainText(res.response_text)
    ELSE LET output ==
                 <<[k |-> "response_text", v |-> res.response_text]>>
                 \o (IF verbose_ /\ Truthy(res.url_context_metadata)
                     THEN <<[k |-> "url_context_metadata",
                             v |-> [i \in 1..Len(res.url_context_metadata.v) |->
                                       UrlMetaDict(res.url_context_metadata.v[i])]]>>
                     ELSE <<>>)
                 \o (IF verbose_ /\ search_enabled
                        /\ Truthy(res.grounding_metadata)
                     THEN <<[k |-> "grounding_metadata",
                             v |-> res.grounding_metadata.v]>>
                     ELSE <<>>)
         IN  json_dumps(output, 2)

\* Mutant: search_enabled is not consulted.
format_output_IgnoreSearch(res, text_only, verbose_, search_enabled) ==
    IF text_only THEN PlainText(res.response_text)
    ELSE LET output ==
                 <<[k |-> "response_text", v |-> res.response_text]>>
                 \o (IF Truthy(res.url_context_metadata)
                     THEN <<[k |-> "url_context_metadata",
                             v |-> [i \in 1..Len(res.url_context_metadata.v) |->
                                       UrlMetaDict(res.url_context_metadata.v[i])]]>>
                     ELSE <<>>)
                 \o (IF verbose_ /\ Truthy(res.grounding_metadata)
                     THEN <<[k |-> "grounding_metadata",
                             v |-> res.grounding_metadata.v]>>
                     ELSE <<>>)
         IN  json_dumps(output, 2)

format_output(res, text_only, verbose_, search_enabled) ==
    IF text_only THEN PlainText(res.response_text)
    ELSE LET output ==
                 <<[k |-> "response_text", v |-> res.response_text]>>
                 \o (IF Truthy(res.url_context_metadata)
                     THEN <<[k |-> "url_context_metadata",
                             v |-> [i \in 1..Len(res.url_context_metadata.v) |->
                                       UrlMetaDict(res.url_context_metadata.v[i])]]>>
                     ELSE <<>>)
                 \o (IF verbose_ /\ search_enabled
                        /\ Truthy(res.grounding_metadata)
                     THEN <<[k |-> "grounding_metadata",
                             v |-> res.grounding_metadata.v]>>
                     ELSE <<>>)
         IN  json_dumps(output, 2)

(***************************************************************************)
(* core/client.py                                                          *)
(***************************************************************************)
Model == <<"gemini-2.5-flash">>

\* Mutant: only a missing key is rejected, an empty one is accepted.
GeminiClient_init_NoneOnly(api_key, env) ==
    LET key == IF ~api_key.some THEN env ELSE api_key
        looked == IF ~api_key.some THEN <<Ev("environ.get")>> ELSE <<>>
    IN  IF ~key.some
        THEN Raise("MissingApiKeyError",
                   <<"GEMINI_API_KEY environment variable is required.">>,
                   looked)
        ELSE Return([api_key |-> key.v, model |-> Model],
                    looked \o <<Ev("genai.Client")>>)

GeminiClient_init(api_key, env) ==
    LET key == IF ~api_key.some THEN env ELSE api_key
        looked == IF ~api_key.some THEN <<Ev("environ.get")>> ELSE <<>>
    IN  IF ~Truthy(key)
        THEN Raise("MissingApiKeyError",
                   <<"GEMINI_API_KEY environment variable is required.",
                     "Set it with: export GEMINI_API_KEY='your-api-key'",
                     "Get an API key from: https://aistudio.google.com/app/apikey">>,
                   looked)
        ELSE Return([api_key |-> key.v, model |-> Model],
                    looked \o <<Ev("genai.Client")>>)

\* "".join(str(part.text) for part in parts
\*         if hasattr(part, "text") and part.text is not None)
RECURSIVE JoinTexts(_)
JoinTexts(parts) ==
    IF Len(parts) = 0 THEN <<>>
    ELSE LET part == Head(parts)
         IN  (IF hasattr(Some(part), "text") /\ part.text.some
              THEN part.text.v ELSE <<>>) \o JoinTexts(Tail(parts))

ExtractText(response) ==
    IF Truthy(response.candidates)
    THEN LET candidate == response.candidates.v[1]
         IN  IF candidate.content.some /\ Truthy(candidate.content.v.parts)
             THEN JoinTexts(candidate.content.v.parts.v)
             ELSE <<>>
    ELSE <<>>

UrlMetadata(url_meta) ==
    [retrieved_url |-> getattr(Some(url_meta), "retrieved_url", Some(<<>>)),
     url_retrieval_status |->
         getattr(Some(url_meta), "url_retrieval_status", Some(<<"UNKNOWN">>))]

ExtractUrlMetadata(response) ==
    IF Truthy(response.candidates)
       /\ hasattr(Some(response.candidates.v[1]), "url_context_metadata")
    THEN LET url_context_metadata ==
                 response.candidates.v[1].url_context_metadata
         IN  IF url_context_metadata.some
                /\ hasattr(url_context_metadata, "url_metadata")
                /\ Truthy(url_context_metadata.v.url_metadata)
             THEN LET url_meta_attr == url_context_metadata.v.url_metadata.v
                  IN  Some([i \in 1..Len(url_meta_attr) |->
                               UrlMetadata(url_meta_attr[i])])
             ELSE None
    ELSE None

ChunkDict(chunk) ==
    IF hasattr(Some(chunk), "web") /\ chunk.web.some
    THEN <<[k |-> "uri", v |-> getattr(chunk.web, "uri", None)],
           [k |-> "title", v |-> getattr(chunk.web, "title", None)]>>
    ELSE IF hasattr(Some(chunk), "uri")
    THEN <<[k |-> "uri", v |-> chunk.uri],
           [k |-> "title", v |-> getattr(Some(chunk), "title", None)]>>
    ELSE <<>>

RECURSIVE SupportsList(_)
SupportsList(supports) ==
    IF Len(supports) = 0 THEN <<>>
    ELSE LET support == Some(Head(supports))
             segment == getattr(support, "segment", None)
             chunk_indices ==
                 getattr(support, "grounding_chunk_indices", Some(<<>>))
         IN  (IF segment.some
              THEN <<<<[k |-> "segment",
                        v |-> <<[k |-> "start_index",
                                 v |-> getattr(segment, "start_index", None)],
                                [k |-> "end_index",
                                 v |-> getattr(segment, "end_index", None)],
                                [k |-> "text",
                                 v |-> getattr(segment, "text", Some(<<>>))]>>],
                       [k |-> "grounding_chunk_indices",
                        v |-> chunk_indices]>>>>
              ELSE <<>>) \o SupportsList(Tail(supports))

\* Mutant: an empty map is returned as it is.
ExtractGrounding_KeepEmpty(response, enable_search, verbose_) ==
    IF verbose_ /\ enable_search
       /\ Truthy(response.candidates)
       /\ hasattr(Some(response.candidates.v[1]), "grounding_metadata")
    THEN LET grounding_metadata == response.candidates.v[1].grounding_metadata
             web_search_queries ==
                 getattr(grounding_metadata, "web_search_queries", Some(<<>>))
             chunks ==
                 getattr(grounding_metadata, "grounding_chunks", Some(<<>>))
             supports ==
                 getattr(grounding_metadata, "grounding_supports", Some(<<>>))
             chunks_list ==
                 IF Truthy(chunks)
                 THEN [i \in 1..Len(chunks.v) |-> ChunkDict(chunks.v[i])]
                 ELSE <<>>
             supports_list ==
                 IF Truthy(supports) THEN SupportsList(supports.v) ELSE <<>>
             grounding_dict ==
                 (IF Truthy(web_search_queries)
                  THEN <<[k |-> "web_search_queries",
                          v |-> web_search_queries.v]>>
                  ELSE <<>>)
                 \o (IF Len(chunks_list) > 0
                     THEN <<[k |-> "grounding_chunks", v |-> chunks_list]>>
                     ELSE <<>>)
                 \o (IF Len(supports_list) > 0
                     THEN <<[k |-> "grounding_supports", v |-> supports_list]>>
                     ELSE <<>>)
         IN  Some(grounding_dict)
    ELSE None

\* Mutant: enable_search is not consulted.
ExtractGrounding_IgnoreSearch(response, enable_search, verbose_) ==
    IF verbose_
       /\ Truthy(response.candidates)
       /\ hasattr(Some(response.candidates.v[1]), "grounding_metadata")
    THEN LET grounding_metadata == response.candidates.v[1].grounding_metadata
             web_search_queries ==
                 getattr(grounding_metadata, "web_search_queries", Some(<<>>))
             chunks ==
                 getattr(grounding_metadata, "grounding_chunks", Some(<<>>))
             supports ==
                 getattr(grounding_metadata, "grounding_supports", Some(<<>>))
             chunks_list ==
                 IF Truthy(chunks)
                 THEN [i \in 1..Len(chunks.v) |-> ChunkDict(chunks.v[i])]
                 ELSE <<>>
             supports_list ==
                 IF Truthy(supports) THEN SupportsList(supports.v) ELSE <<>>
             grounding_dict ==
                 (IF Truthy(web_search_queries)
                  THEN <<[k |-> "web_search_queries",
                          v |-> web_search_queries.v]>>
                  ELSE <<>>)
                 \o (IF Len(chunks_list) > 0
                     THEN <<[k |-> "grounding_chunks", v |-> chunks_list]>>
                     ELSE <<>>)
                 \o (IF Len(supports_list) > 0
                     THEN <<[k |-> "grounding_supports", v |-> supports_list]>>
                     ELSE <<>>)
         IN  IF Len(grounding_dict) = 0 THEN None ELSE Some(grounding_dict)
    ELSE None

ExtractGrounding(response, enable_search, verbose_) ==
    IF verbose_ /\ enable_search
       /\ Truthy(response.candidates)
       /\ hasattr(Some(response.candidates.v[1]), "grounding_metadata")
    THEN LET grounding_metadata == response.candidates.v[1].grounding_metadata
             web_search_queries ==
                 getattr(grounding_metadata, "web_search_queries", Some(<<>>))
             chunks ==
                 getattr(grounding_metadata, "grounding_chunks", Some(<<>>))
             supports ==
                 getattr(grounding_metadata, "grounding_supports", Some(<<>>))
             chunks_list ==
                 IF Truthy(chunks)
                 THEN [i \in 1..Len(chunks.v) |-> ChunkDict(chunks.v[i])]
                 ELSE <<>>
             supports_list ==
                 IF Truthy(supports) THEN SupportsList(supports.v) ELSE <<>>
             grounding_dict ==
                 (IF Truthy(web_search_queries)
                  THEN <<[k |-> "web_search_queries",
                          v |-> web_search_queries.v]>>
                  ELSE <<>>)
                 \o (IF Len(chunks_list) > 0
                     THEN <<[k |-> "grounding_chunks", v |-> chunks_list]>>
                     ELSE <<>>)
                 \o (IF Len(supports_list) > 0
                     THEN <<[k |-> "grounding_supports", v |-> supports_list]>>
                     ELSE <<>>)
         IN  IF Len(grounding_dict) = 0 THEN None ELSE Some(grounding_dict)
    ELSE None

QueryResult(response, enable_search, verbose_) ==
    [response_text |-> ExtractText(response),
     url_context_metadata |-> ExtractUrlMetadata(response),
     grounding_metadata |-> ExtractGrounding(response, enable_search, verbose_)]

Tools(enable_search) ==
    IF enable_search THEN <<"url_context", "google_search">>
    ELSE <<"url_context">>

\* Mutant: a whitespace-only prompt is not rejected.
GeminiClient_query_NoStrip(self, p, enable_search, verbose_, outcome) ==
    IF ~Truthy(p)
    THEN Raise("ValueError",
               <<"Prompt cannot be empty.", "Provide a prompt as argument:",
                 "Or read from stdin:">>, <<>>)
    ELSE LET sent == <<[op |-> "generate_content", model |-> self.model,
                        contents |-> p.v, tools |-> Tools(enable_search),
                        outcome |-> outcome]>>
         IN  IF ~outcome.ok
             THEN Raise("QueryError",
                        <<"Query failed: ", outcome.error,
                          "Check your API key and network connection.",
                          "Verify API key is set: echo $GEMINI_API_KEY">>,
                        sent)
             ELSE Return(QueryResult(outcome.response, enable_search, verbose_),
                         sent)

\* Mutant: the failure of generate_content is not caught.
GeminiClient_query_Propagate(self, p, enable_search, verbose_, outcome) ==
    IF IsBlank(p)
    THEN Raise("ValueError",
               <<"Prompt cannot be empty.", "Provide a prompt as argument:",
                 "Or read from stdin:">>, <<>>)
    ELSE LET sent == <<[op |-> "generate_content", model |-> self.model,
                        contents |-> p.v, tools |-> Tools(enable_search),
                        outcome |-> outcome]>>
         IN  IF ~outcome.ok
             THEN Raise("Exception", <<outcome.error>>, sent)
             ELSE Return(QueryResult(outcome.response, enable_search, verbose_),
                         sent)

\* GeminiClient.query; `outcome` is what generate_content does when called.
GeminiClient_query(self, p, enable_search, verbose_, outcome) ==
    IF IsBlank(p)
    THEN Raise("ValueError",
               <<"Prompt cannot be empty.", "Provide a prompt as argument:",
                 "Or read from stdin:">>, <<>>)
    ELSE LET sent == <<[op |-> "generate_content", model |-> self.model,
                        contents |-> p.v, tools |-> Tools(enable_search),
                        outcome |-> outcome]>>
         IN  IF ~outcome.ok
             THEN Raise("QueryError",
                        <<"Query failed: ", outcome.error,
                          "Check your API key and network connection.",
                          "Verify API key is set: echo $GEMINI_API_KEY">>,
                        sent)
             ELSE Return(QueryResult(outcome.response, enable_search, verbose_),
                         sent)

query_with_url_context(p, api_key, env, enable_search, verbose_, outcome) ==
    LET c == GeminiClient_init(api_key, env)
    IN  IF c.raised # "none" THEN c
        ELSE LET q == GeminiClient_query(c.value, p, enable_search, verbose_,
                                         outcome)
             IN  [q EXCEPT !.events = c.events \o q.events]

(***************************************************************************)
(* What the remote service can answer: the objects of the SDK's response   *)
(* that GeminiClient.query reads.                                          *)
(***************************************************************************)
NoAttr == [f \in {} |-> None]
Str(c) == Some(<<c>>)

Contents ==
    << None,
       Some([parts |-> None]),
       Some([parts |-> Some(<<>>)]),
       Some([parts |-> Some(<<[text |-> Str("x")], [text |-> None],
                              [inline_data |-> Str("d")],
                              [text |-> Str("y")]>>)]) >>

UrlEntries ==
    <<[retrieved_url |-> Str("u"),
       url_retrieval_status |-> Str("URL_RETRIEVAL_STATUS_SUCCESS")],
      [unrelated |-> None],
      [retrieved_url |-> None, url_retrieval_status |-> None]>>

UrlContexts ==
    << NoAttr,
       [url_context_metadata |-> None],
       [url_context_metadata |-> Some([unrelated |-> None])],
       [url_context_metadata |-> Some([url_metadata |-> None])],
       [url_context_metadata |-> Some([url_metadata |-> Some(<<>>)])],
       [url_context_metadata |-> Some([url_metadata |-> Some(UrlEntries)])] >>

Queries == << None, Some(<<>>), Some(<< <<"q">> >>) >>

Chunks ==
    << None,
       Some(<<>>),
       Some(<<[web |-> Some([uri |-> Str("u"), title |-> Str("t")])]>>),
       Some(<<[web |-> None, uri |-> Str("u")],
              [web |-> None],
              [web |-> Some([uri |-> Str("u")])]>>) >>

Supports ==
    << None,
       Some(<<>>),
       Some(<<[segment |-> None, grounding_chunk_indices |-> Some(<<0>>)],
              [unrelated |-> None]>>),
       Some(<<[segment |-> Some([start_index |-> Some(0),
                                 end_index |-> Some(4),
                                 text |-> Str("x")]),
               grounding_chunk_indices |-> Some(<<0>>)],
              [segment |-> None, grounding_chunk_indices |-> None],
              [segment |-> Some([end_index |-> None])]>>) >>

Groundings ==
    << NoAttr,
       [grounding_metadata |-> None],
       [grounding_metadata |-> Some([unrelated |-> None])] >>
    \o [i \in 1..(Len(Queries) * Len(Chunks) * Len(Supports)) |->
           [grounding_metadata |->
               Some([web_search_queries |-> Queries[((i - 1) % Len(Queries)) + 1],
                     grounding_chunks |->
                         Chunks[(((i - 1) \div Len(Queries)) % Len(Chunks)) + 1],
                     grounding_supports |->
                         Supports[((i - 1) \div (Len(Queries) * Len(Chunks))) + 1]])]]

Candidate(ci, ui, gi) ==
    [content |-> Contents[ci]] @@ UrlContexts[ui] @@ Groundings[gi]

\* One part of the response varies at a time; the last ones vary together.
Responses ==
    << [candidates |-> None], [candidates |-> Some(<<>>)] >>
    \o [ci \in 1..Len(Contents) |->
           [candidates |-> Some(<<Candidate(ci, 1, 1)>>)]]
    \o [ui \in 1..Len(UrlContexts) |->
           [candidates |-> Some(<<Candidate(1, ui, 1)>>)]]
    \o [gi \in 1..Len(Groundings) |->
           [candidates |-> Some(<<Candidate(4, 2, gi)>>)]]
    \o << [candidates |->
              Some(<<Candidate(4, 6, Len(Groundings)), Candidate(1, 1, 1)>>)],
          [candidates |->
              Some(<<Candidate(1, 1, 1), Candidate(4, 6, Len(Groundings))>>)] >>

Failures == {"timeout", "authentication", "malformed response", "server error"}

\* What generate_content does: raise, or return a response.
Outcomes ==
    [i \in 1..Len(Responses) |-> [ok |-> TRUE, response |-> Responses[i]]]
    \o << [ok |-> FALSE, error |-> "timeout"],
          [ok |-> FALSE, error |-> "authentication"],
          [ok |-> FALSE, error |-> "malformed response"],
          [ok |-> FALSE, error |-> "server error"] >>

Keys == {None, Some(<<>>), Some(<<"k">>)}

(***************************************************************************)
(* commands/query_commands.py: one run of the `query` subcommand           *)
(***************************************************************************)
ErrorPrefix == "Error: "

BothGiven ==
    <<ErrorPrefix, "Cannot specify both PROMPT argument and --stdin flag.",
      "Choose one:">>

Usage ==
    <<ErrorPrefix, "PROMPT argument is required.", "Provide a prompt:",
      "Or read from stdin:", "For help:">>

Unexpected(msg) ==
    <<ErrorPrefix, "Unexpected error: ">> \o msg
    \o <<"This may be a bug. Please report at:">>

InfoModel == <<"[INFO] ", "Querying with model '", Model[1],
               "' and URL context tool">>
InfoSearch(enabled) ==
    <<"[INFO] ",
      IF enabled THEN "Google Search tool enabled"
      ELSE "Google Search tool disabled">>
InfoDone == <<"[INFO] ", "Query completed successfully">>

Idle == [fn |-> "none"]

CliInit ==
    /\ argv \in {None} \cup {Some(s) : s \in StringsUpTo(MaxPromptLen)}
    /\ prompt = argv
    /\ stdin \in BOOLEAN
    /\ no_search_tool \in BOOLEAN
    /\ verbose \in BOOLEAN
    /\ text \in BOOLEAN
    /\ environ \in Keys
    /\ tty \in BOOLEAN
    /\ stdin_data \in StringsUpTo(MaxPromptLen)
    /\ pc = "validate_source"
    /\ out = <<>>
    /\ err = <<>>
    /\ exit_code = -1
    /\ events = <<>>
    /\ result = None
    /\ exc = None
    /\ client = None
    /\ call = Idle
    /\ ret = Idle

\* Mutant: the process exits with a code of its own.
Exit_OtherCode(code, message) ==
    /\ err' = Append(err, message)
    /\ exit_code' = 2
    /\ pc' = "exit"

Exit(code, message) ==
    /\ err' = Append(err, message)
    /\ exit_code' = code
    /\ pc' = "exit"

\* Mutant: the prompt source is not validated.
ValidatePromptSource_Skip ==
    /\ pc = "validate_source"
    /\ pc' = "get_prompt"
    /\ UNCHANGED <<err, exit_code>>
    /\ UNCHANGED <<prompt, stdin, no_search_tool, verbose, text, environ, tty,
                   stdin_data, out, events, result, exc, client, argv, call,
                   ret>>

\* query(), "Validate prompt source"
ValidatePromptSource ==
    /\ pc = "validate_source"
    /\ IF stdin /\ Truthy(prompt)
       THEN Exit(1, BothGiven)
       ELSE /\ pc' = "get_prompt"
            /\ UNCHANGED <<err, exit_code>>
    /\ UNCHANGED <<prompt, stdin, no_search_tool, verbose, text, environ, tty,
                   stdin_data, out, events, result, exc, client, argv, call,
                   ret>>

\* query(), "Get prompt from stdin or argument"
GetPrompt ==
    /\ pc = "get_prompt"
    /\ IF stdin
       THEN LET r == read_stdin(tty, stdin_data)
            IN  /\ events' = events \o r.events
                /\ IF r.raised = "ValueError"
                   THEN /\ Exit(1, <<ErrorPrefix>> \o r.msg)
                        /\ UNCHANGED prompt
                   ELSE /\ prompt' = Some(r.value)
                        /\ pc' = "log_verbose"
                        /\ UNCHANGED <<err, exit_code>>
       ELSE IF ~Truthy(prompt)
       THEN /\ Exit(1, Usage)
            /\ UNCHANGED <<prompt, events>>
       ELSE /\ pc' = "log_verbose"
            /\ UNCHANGED <<prompt, events, err, exit_code>>
    /\ UNCHANGED <<stdin, no_search_tool, verbose, text, environ, tty,
                   stdin_data, out, result, exc, client, argv, call, ret>>

\* Mutant: the search tool is reported enabled when it is disabled.
LogVerbose_Inverted ==
    /\ pc = "log_verbose"
    /\ err' = IF verbose
              THEN err \o <<InfoModel, InfoSearch(no_search_tool)>>
              ELSE err
    /\ pc' = "execute"
    /\ UNCHANGED <<prompt, stdin, no_search_tool, verbose, text, environ, tty,
                   stdin_data, out, exit_code, events, result, exc, client,
                   argv, call, ret>>

\* query(), "Log verbose info"
LogVerbose ==
    /\ pc = "log_verbose"
    /\ err' = IF verbose
              THEN err \o <<InfoModel, InfoSearch(~no_search_tool)>>
              ELSE err
    /\ pc' = "execute"
    /\ UNCHANGED <<prompt, stdin, no_search_tool, verbose, text, environ, tty,
                   stdin_data, out, exit_code, events, result, exc, client,
                   argv, call, ret>>

\* query(), "Execute query": result = core_query(...)
ExecuteQuery ==
    /\ pc = "execute"
    /\ \E i \in 1..Len(Outcomes) :
          LET r == query_with_url_context(prompt, None, environ,
                                          ~no_search_tool, verbose, Outcomes[i])
              c == GeminiClient_init(None, environ)
          IN  /\ events' = events \o r.events
              /\ client' = IF c.raised = "none" THEN Some(c.value) ELSE client
              /\ IF r.raised = "none"
                 THEN /\ result' = Some(r.value)
                      /\ pc' = "output"
                      /\ UNCHANGED exc
                 ELSE /\ exc' = Some([raised |-> r.raised, msg |-> r.msg])
                      /\ pc' = "except"
                      /\ UNCHANGED result
    /\ UNCHANGED <<prompt, stdin, no_search_tool, verbose, text, environ, tty,
                   stdin_data, out, err, exit_code, argv, call, ret>>

\* query(), after core_query returned: the completion line
LogCompleted ==
    /\ pc = "output"
    /\ err' = IF verbose THEN Append(err, InfoDone) ELSE err
    /\ pc' = "print"
    /\ UNCHANGED <<prompt, stdin, no_search_tool, verbose, text, environ, tty,
                   stdin_data, out, exit_code, events, result, exc, client,
                   argv, call, ret>>

\* query(), "Format and output result"
Output ==
    /\ pc = "print"
    /\ UNCHANGED err
    /\ out' = Append(out, format_output(result.v, text, verbose,
                                        ~no_search_tool))
    /\ exit_code' = 0
    /\ pc' = "exit"
    /\ UNCHANGED <<prompt, stdin, no_search_tool, verbose, text, environ, tty,
                   stdin_data, events, result, exc, client, argv, call, ret>>

ClientErrors == {"MissingApiKeyError", "QueryError", "GeminiClientError"}

\* query(), the except clauses
HandleError ==
    /\ pc = "except"
    /\ IF exc.v.raised \in ClientErrors \cup {"ValueError"}
       THEN Exit(1, <<ErrorPrefix>> \o exc.v.msg)
       ELSE Exit(1, Unexpected(exc.v.msg))
    /\ UNCHANGED <<prompt, stdin, no_search_tool, verbose, text, environ, tty,
                   stdin_data, out, events, result, exc, client, argv, call,
                   ret>>

(***************************************************************************)
(* Use as a library: a program that calls one exported function with any   *)
(* arguments of its types, or constructs a client and queries it, and may  *)
(* format the result a query returned.  pc is "library" before the call,   *)
(* "returned" after a query and "done" at the end.                         *)
(***************************************************************************)
Prompts == {None} \cup {Some(s) : s \in StringsUpTo(MaxPromptLen)}

UrlMetadataLists ==
    << None,
       Some(<<>>),
       Some(<<[retrieved_url |-> Str("https://example.com"),
               url_retrieval_status |-> Str("URL_RETRIEVAL_STATUS_SUCCESS")]>>),
       Some(<<[retrieved_url |-> Str("u"), url_retrieval_status |-> Str("s")],
              [retrieved_url |-> Str("w"),
               url_retrieval_status |-> Str("UNKNOWN")]>>) >>

GroundingDicts ==
    << None,
       Some(<<>>),
       Some(<<[k |-> "web_search_queries", v |-> << <<"test">> >>]>>),
       Some(<<[k |-> "web_search_queries", v |-> << <<"test query">> >>],
              [k |-> "grounding_chunks",
               v |-> << <<[k |-> "uri", v |-> Str("https://example.com")],
                          [k |-> "title", v |-> Str("Example")]>> >>]>>) >>

\* QueryResult(response_text, url_context_metadata, grounding_metadata) as a
\* caller may construct it.
MadeResult(t, ui, gi) ==
    [response_text |-> t,
     url_context_metadata |-> UrlMetadataLists[ui],
     grounding_metadata |-> GroundingDicts[gi]]

LibInit ==
    /\ environ \in Keys
    /\ pc = "library"
    /\ client = None
    /\ call = Idle
    /\ ret = Idle
    /\ argv = None
    /\ prompt = None
    /\ stdin = FALSE
    /\ no_search_tool = FALSE
    /\ verbose = FALSE
    /\ text = FALSE
    /\ tty = FALSE
    /\ stdin_data = <<>>
    /\ out = <<>>
    /\ err = <<>>
    /\ exit_code = -1
    /\ events = <<>>
    /\ result = None
    /\ exc = None

runVars == <<prompt, stdin, no_search_tool, verbose, text, tty, stdin_data,
             out, err, exit_code, events, result, exc, argv>>

\* client = GeminiClient(api_key)
NewClient ==
    /\ pc = "library"
    /\ call = Idle
    /\ \E k \in Keys :
          LET r == GeminiClient_init(k, environ)
          IN  /\ call' = [fn |-> "GeminiClient", api_key |-> k]
              /\ ret' = r
              /\ client' = IF r.raised = "none" THEN Some(r.value) ELSE client
    /\ UNCHANGED <<environ, runVars, pc>>

\* client.query(prompt, enable_search, verbose)
CallQuery ==
    /\ pc = "library"
    /\ client.some
    /\ pc' = "returned"
    /\ \E p \in Prompts, es \in BOOLEAN, vb \in BOOLEAN,
          i \in 1..Len(Outcomes) :
          /\ call' = [fn |-> "query", prompt |-> p, enable_search |-> es,
                      verbose |-> vb, outcome |-> Outcomes[i]]
          /\ ret' = GeminiClient_query(client.v, p, es, vb, Outcomes[i])
    /\ UNCHANGED <<environ, client, runVars>>

\* query_with_url_context(prompt, api_key, enable_search, verbose)
CallQueryWithUrlContext ==
    /\ pc = "library"
    /\ call = Idle
    /\ pc' = "returned"
    /\ \E p \in Prompts, k \in Keys, es \in BOOLEAN, vb \in BOOLEAN,
          i \in 1..Len(Outcomes) :
          /\ call' = [fn |-> "query_with_url_context", prompt |-> p,
                      api_key |-> k, enable_search |-> es, verbose |-> vb,
                      outcome |-> Outcomes[i]]
          /\ ret' = query_with_url_context(p, k, environ, es, vb, Outcomes[i])
    /\ UNCHANGED <<environ, client, runVars>>

IsQueryCall == call.fn \in {"query", "query_with_url_context"}

\* format_output(result, text_only, verbose, search_enabled), on a result the
\* caller constructed or on the result the last query returned
CallFormatOutput ==
    /\ pc' = "done"
    /\ \E t \in BOOLEAN, vb \in BOOLEAN, se \in BOOLEAN :
          \/ \E rt \in {<<>>, <<"H", "i">>},
                ui \in 1..Len(UrlMetadataLists),
                gi \in 1..Len(GroundingDicts) :
                /\ pc = "library"
                /\ call = Idle
                /\ call' = [fn |-> "format_output",
                            result |-> MadeResult(rt, ui, gi),
                            text_only |-> t, verbose |-> vb,
                            search_enabled |-> se]
                /\ ret' = Return(format_output(MadeResult(rt, ui, gi), t, vb,
                                               se), <<>>)
          \/ /\ pc = "returned"
             /\ ret.raised = "none"
             /\ call' = [fn |-> "format_output", result |-> ret.value,
                         text_only |-> t, verbose |-> vb,
                         search_enabled |-> se]
             /\ ret' = Return(format_output(ret.value, t, vb, se), <<>>)
    /\ UNCHANGED <<environ, client, runVars>>

\* validate_prompt(prompt)
CallValidatePrompt ==
    /\ pc = "library"
    /\ call = Idle
    /\ pc' = "done"
    /\ \E p \in {None} \cup {Some(s) : s \in StringsUpTo(MaxLen)} :
          /\ call' = [fn |-> "validate_prompt", prompt |-> p]
          /\ ret' = validate_prompt(p)
    /\ UNCHANGED <<environ, client, runVars>>

Init == CliInit \/ LibInit

Next ==
    \/ ValidatePromptSource
    \/ GetPrompt
    \/ LogVerbose
    \/ ExecuteQuery
    \/ LogCompleted
    \/ Output
    \/ HandleError
    \/ NewClient
    \/ CallQuery
    \/ CallQueryWithUrlContext
    \/ CallFormatOutput
    \/ CallValidatePrompt

Spec == Init /\ [][Next]_vars

(***************************************************************************)
(* Properties                                                              *)
(***************************************************************************)
Cli == pc \notin {"library", "returned", "done"}

Requests(evs) == {i \in 1..Len(evs) : evs[i].op = "generate_content"}
Did(evs, op) == \E i \in 1..Len(evs) : evs[i].op = op
IsError(message) == Len(message) > 0 /\ message[1] = ErrorPrefix
AllWhitespace(s) == \A i \in 1..Len(s) : s[i] \in Whitespace
Blank(p) == (~p.some) \/ AllWhitespace(p.v)
FailedRequests(evs) == {i \in Requests(evs) : ~evs[i].outcome.ok}
EmitsGrounding(payload) ==
    payload.json /\ HasKey(payload.members, "grounding_metadata")

\* C1: a run of `query` that has terminated either exited with code 0 and
\* standard output holds exactly the formatted result, or exited with code 1,
\* standard output is empty and the error stream holds an `Error:` message;
\* before termination nothing is on standard output.
C1_ExitContract ==
    Cli =>
        /\ pc # "exit" => exit_code = -1 /\ out = <<>>
        /\ pc = "exit" =>
              \/ /\ exit_code = 0
                 /\ result.some
                 /\ out = <<format_output(result.v, text, verbose,
                                          ~no_search_tool)>>
              \/ /\ exit_code = 1
                 /\ out = <<>>
                 /\ \E i \in 1..Len(err) : IsError(err[i])

W_C1 == pc = "exit" /\ exit_code = 0 /\ Len(out) = 1 /\ Len(err) = 3

\* C2: a run sends at most one generation request, and only after the client
\* was constructed and with a prompt that is not blank; a call of
\* GeminiClient.query with a prompt that is not blank sends exactly one
\* request, also when the request fails, and none when the prompt is blank.
C2_OneRequest ==
    /\ Cardinality(Requests(events)) <= 1
    /\ \A i \in Requests(events) :
          /\ \E j \in 1..(i - 1) : events[j].op = "genai.Client"
          /\ ~Blank(Some(events[i].contents))
    /\ call.fn = "query" =>
          /\ Cardinality(Requests(ret.events)) =
                 IF Blank(call.prompt) THEN 0 ELSE 1
          /\ \A i \in Requests(ret.events) :
                ret.events[i].contents = call.prompt.v
    /\ call.fn = "query_with_url_context" =>
          /\ Cardinality(Requests(ret.events)) <= 1
          /\ \A i \in Requests(ret.events) :
                /\ \E j \in 1..(i - 1) : ret.events[j].op = "genai.Client"
                /\ ~Blank(call.prompt)

W_C2 ==
    /\ pc = "exit"
    /\ exit_code = 1
    /\ Cardinality(Requests(events)) = 1
    /\ FailedRequests(events) # {}

\* C3 as stated: with a positional prompt and --stdin the run ends with the
\* "cannot specify both" message and exit code 1, and neither reads the input
\* stream, nor constructs the client, nor sends a request.
C3_BothGivenAnyPrompt ==
    (Cli /\ stdin /\ argv.some) =>
        /\ events = <<>>
        /\ client = None
        /\ pc \in {"validate_source", "exit"}
        /\ pc = "exit" => exit_code = 1 /\ err = <<BothGiven>> /\ out = <<>>

\* C3 amended: the same, for a positional prompt that is not the empty string.
C3_BothGiven ==
    (Cli /\ stdin /\ Truthy(argv)) =>
        /\ events = <<>>
        /\ client = None
        /\ pc \in {"validate_source", "exit"}
        /\ pc = "exit" => exit_code = 1 /\ err = <<BothGiven>> /\ out = <<>>

W_C3 == pc = "exit" /\ stdin /\ Truthy(argv) /\ err = <<BothGiven>>

\* C4: with neither a positional prompt nor --stdin the run ends with the
\* usage message and exit code 1 without constructing a client; with --stdin
\* and no positional prompt the prompt is what read_stdin returns, and when
\* the input is a terminal or blank the run ends with `Error:` and exit code
\* 1 without constructing a client or sending a request.
C4_PromptSource ==
    /\ (Cli /\ ~stdin /\ ~argv.some) =>
          /\ events = <<>>
          /\ client = None
          /\ pc \in {"validate_source", "get_prompt", "exit"}
          /\ pc = "exit" => exit_code = 1 /\ err = <<Usage>> /\ out = <<>>
    /\ (Cli /\ stdin /\ ~argv.some
            /\ pc \notin {"validate_source", "get_prompt"}) =>
          IF tty \/ Blank(Some(stdin_data))
          THEN /\ pc = "exit"
               /\ exit_code = 1
               /\ Len(err) = 1
               /\ IsError(err[1])
               /\ client = None
               /\ Requests(events) = {}
               /\ tty => ~Did(events, "stdin.read")
          ELSE /\ Did(events, "stdin.read")
               /\ \E a, b \in 0..Len(stdin_data) :
                     /\ a + b < Len(stdin_data)
                     /\ prompt = Some(SubSeq(stdin_data, a + 1,
                                             Len(stdin_data) - b))
                     /\ prompt.v[1] \notin Whitespace
                     /\ prompt.v[Len(prompt.v)] \notin Whitespace

W_C4 ==
    /\ pc = "exit"
    /\ stdin
    /\ ~argv.some
    /\ ~tty
    /\ Len(stdin_data) > 0
    /\ AllWhitespace(stdin_data)
    /\ exit_code = 1

\* C5: constructing the client without a credential argument while
\* GEMINI_API_KEY is unset or empty raises MissingApiKeyError before the SDK
\* client is made or any request is sent; the environment is read only when
\* no credential argument is given; in the convenience function and in a run
\* of `query` without a credential, GeminiClient.query is never entered and
\* the run ends with exit code 1.
C5_MissingApiKey ==
    /\ (call.fn \in {"GeminiClient", "query_with_url_context"}
            /\ ~call.api_key.some /\ ~Truthy(environ)) =>
          /\ ret.raised = "MissingApiKeyError"
          /\ Requests(ret.events) = {}
          /\ ~Did(ret.events, "genai.Client")
    /\ (call.fn \in {"GeminiClient", "query_with_url_context"}
            /\ call.api_key.some) =>
          ~Did(ret.events, "environ.get")
    /\ (Cli /\ ~Truthy(environ)) =>
          /\ Requests(events) = {}
          /\ ~Did(events, "genai.Client")
          /\ client = None
          /\ pc # "output"
          /\ pc = "except" => exc.v.raised = "MissingApiKeyError"
          /\ pc = "exit" => exit_code = 1

W_C5 ==
    /\ pc = "exit"
    /\ ~Truthy(environ)
    /\ Did(events, "environ.get")
    /\ exc.some
    /\ Blank(prompt)

\* C6: when the generation request fails, GeminiClient.query raises QueryError
\* with a message that contains the failure's description, and returns no
\* result; a run of `query` prints `Error: <message>` on the recognized path
\* and exits with code 1.
C6_QueryFailed ==
    /\ IsQueryCall =>
          \A i \in FailedRequests(ret.events) :
              /\ ret.raised = "QueryError"
              /\ Contains(ret.msg, ret.events[i].outcome.error)
    /\ Cli =>
          \A i \in FailedRequests(events) :
              /\ ~result.some
              /\ pc \in {"except", "exit"}
              /\ exc.some
              /\ exc.v.raised = "QueryError"
              /\ Contains(exc.v.msg, events[i].outcome.error)
              /\ pc = "exit" =>
                    /\ exit_code = 1
                    /\ err[Len(err)] = <<ErrorPrefix>> \o exc.v.msg
                    /\ ~Contains(err[Len(err)], "Unexpected error: ")
                    /\ out = <<>>

W_C6 ==
    /\ pc = "exit"
    /\ FailedRequests(events) # {}
    /\ Contains(err[Len(err)], "malformed response")

\* C7 as stated: the JSON of format_output has the key grounding_metadata
\* exactly when verbose and search_enabled are true and the result's
\* grounding_metadata is not absent.
C7_KeyIffNotAbsent ==
    (call.fn = "format_output" /\ ~call.text_only) =>
        /\ ret.value.json
        /\ HasKey(ret.value.members, "grounding_metadata")
               <=> (call.verbose /\ call.search_enabled
                    /\ call.result.grounding_metadata.some)

\* C7 amended: the JSON of format_output has the key grounding_metadata
\* exactly when verbose and search_enabled are true and the result's
\* grounding_metadata is neither absent nor empty; its value is then the
\* result's grounding_metadata.
C7_KeyIffNotEmpty ==
    (call.fn = "format_output" /\ ~call.text_only) =>
        /\ ret.value.json
        /\ HasKey(ret.value.members, "grounding_metadata")
               <=> (call.verbose /\ call.search_enabled
                    /\ call.result.grounding_metadata.some
                    /\ Len(call.result.grounding_metadata.v) > 0)
        /\ HasKey(ret.value.members, "grounding_metadata") =>
               ValueOf(ret.value.members, "grounding_metadata")
                   = call.result.grounding_metadata.v

W_C7 ==
    /\ call.fn = "format_output"
    /\ ~call.text_only
    /\ HasKey(ret.value.members, "grounding_metadata")

\* C8: the grounding_metadata of a result returned by GeminiClient.query is
\* absent or a map with at least one key, and format_output never emits a
\* grounding_metadata key with an empty object.
C8_NoEmptyGrounding ==
    /\ (IsQueryCall /\ ret.raised = "none") =>
          (ret.value.grounding_metadata.some =>
               Len(ret.value.grounding_metadata.v) > 0)
    /\ result.some =>
          (result.v.grounding_metadata.some =>
               Len(result.v.grounding_metadata.v) > 0)
    /\ (call.fn = "format_output" /\ EmitsGrounding(ret.value)) =>
          Len(ValueOf(ret.value.members, "grounding_metadata")) > 0
    /\ \A i \in 1..Len(out) :
          EmitsGrounding(out[i]) =>
              Len(ValueOf(out[i].members, "grounding_metadata")) > 0

\* The first candidate of the response carries a grounding object.
HasGroundingObject(response) ==
    /\ Truthy(response.candidates)
    /\ hasattr(Some(response.candidates.v[1]), "grounding_metadata")
    /\ response.candidates.v[1].grounding_metadata.some

W_C8 ==
    /\ IsQueryCall
    /\ ret.raised = "none"
    /\ call.verbose
    /\ call.enable_search
    /\ HasGroundingObject(call.outcome.response)
    /\ Truthy(getattr(call.outcome.response.candidates.v[1].grounding_metadata,
                      "grounding_supports", None))
    /\ ~ret.value.grounding_metadata.some

\* C9: a result returned by GeminiClient.query has grounding_metadata only
\* when verbose and enable_search were both true; a run of `query` asks for the
\* search tool exactly when --no-search-tool is not set and prints a
\* grounding_metadata key only with --verbose and without --no-search-tool.
C9_GroundingGated ==
    /\ (IsQueryCall /\ ret.raised = "none"
            /\ ~(call.verbose /\ call.enable_search)) =>
          ~ret.value.grounding_metadata.some
    /\ (result.some /\ ~(verbose /\ ~no_search_tool)) =>
          ~result.v.grounding_metadata.some
    /\ \A i \in Requests(events) :
          (\E j \in 1..Len(events[i].tools) :
               events[i].tools[j] = "google_search") <=> ~no_search_tool
    /\ \A i \in 1..Len(out) :
          EmitsGrounding(out[i]) => (verbose /\ ~no_search_tool)

W_C9 ==
    /\ pc = "exit"
    /\ exit_code = 0
    /\ verbose
    /\ no_search_tool
    /\ ~text
    /\ \E i \in Requests(events) :
          /\ HasGroundingObject(events[i].outcome.response)
          /\ Truthy(getattr(
                 events[i].outcome.response.candidates.v[1].grounding_metadata,
                 "web_search_queries", None))
    /\ ~EmitsGrounding(out[1])

\* c is s without its leading and trailing whitespace.
IsCoreOf(c, s) ==
    /\ Len(c) > 0
    /\ c[1] \notin Whitespace
    /\ c[Len(c)] \notin Whitespace
    /\ \E a \in 0..(Len(s) - Len(c)) :
          /\ c = SubSeq(s, a + 1, a + Len(c))
          /\ AllWhitespace(SubSeq(s, 1, a))
          /\ AllWhitespace(SubSeq(s, a + Len(c) + 1, Len(s)))

\* C10: validate_prompt raises ValueError with "Prompt cannot be empty" in
\* its message exactly when the prompt is absent, empty or all whitespace;
\* otherwise it returns the prompt without its leading and trailing
\* whitespace, and validate_prompt of that result returns it again.
C10_ValidatePrompt ==
    call.fn = "validate_prompt" =>
        IF Blank(call.prompt)
        THEN /\ ret.raised = "ValueError"
             /\ Contains(ret.msg, "Prompt cannot be empty")
        ELSE /\ ret.raised = "none"
             /\ IsCoreOf(ret.value, call.prompt.v)
             /\ validate_prompt(Some(ret.value)).raised = "none"
             /\ validate_prompt(Some(ret.value)).value = ret.value

W_C10 ==
    /\ call.fn = "validate_prompt"
    /\ ret.raised = "none"
    /\ Len(ret.value) = 3
    /\ ret.value[2] \in Whitespace
    /\ Len(call.prompt.v) > 3

\* C11: format_output with text_only returns the result's response_text and
\* nothing else, whatever the other flags and the metadata; without text_only
\* it returns a JSON object whose response_text is the result's, and which
\* has the key url_context_metadata exactly when the result's
\* url_context_metadata is neither absent nor empty, with one object per
\* entry, in order, holding that entry's retrieved_url and
\* url_retrieval_status.
C11_FormatOutput ==
    call.fn = "format_output" =>
        LET res == call.result
            doc == ret.value
        IN  IF call.text_only
            THEN ~doc.json /\ doc.text = res.response_text
            ELSE /\ doc.json
                 /\ HasKey(doc.members, "response_text")
                 /\ ValueOf(doc.members, "response_text") = res.response_text
                 /\ HasKey(doc.members, "url_context_metadata")
                        <=> (res.url_context_metadata.some
                             /\ Len(res.url_context_metadata.v) > 0)
                 /\ HasKey(doc.members, "url_context_metadata") =>
                        LET listed == ValueOf(doc.members,
                                              "url_context_metadata")
                            entries == res.url_context_metadata.v
                        IN  /\ Len(listed) = Len(entries)
                            /\ \A i \in 1..Len(entries) :
                                  /\ Len(listed[i]) = 2
                                  /\ ValueOf(listed[i], "retrieved_url")
                                         = entries[i].retrieved_url
                                  /\ ValueOf(listed[i], "url_retrieval_status")
                                         = entries[i].url_retrieval_status

W_C11 ==
    /\ call.fn = "format_output"
    /\ ~call.text_only
    /\ ~call.verbose
    /\ ~call.search_enabled
    /\ HasKey(ret.value.members, "url_context_metadata")
    /\ Len(ValueOf(ret.value.members, "url_context_metadata")) = 2

IsInfo(message) == Len(message) > 0 /\ message[1] = "[INFO] "
Infos(stream) == {i \in 1..Len(stream) : IsInfo(stream[i])}

\* The run is rejected by the validation of the prompt source.
Rejected ==
    \/ stdin /\ Truthy(argv)
    \/ stdin /\ ~Truthy(argv) /\ (tty \/ Blank(Some(stdin_data)))
    \/ ~stdin /\ ~Truthy(argv)

ModelLine ==
    <<"[INFO] ", "Querying with model '", "gemini-2.5-flash",
      "' and URL context tool">>
SearchLine ==
    <<"[INFO] ",
      IF no_search_tool THEN "Google Search tool disabled"
      ELSE "Google Search tool enabled">>
CompletedLine == <<"[INFO] ", "Query completed successfully">>

\* C12: a run with --verbose that passes the validation of the prompt source
\* has written, before the client is invoked, the [INFO] line naming
\* gemini-2.5-flash and then the [INFO] line saying whether the search tool is
\* enabled (exactly when --no-search-tool is not set); the completion line is
\* written only after the query returned a result and before the formatted
\* result is on standard output; without --verbose, and on a rejected run, no
\* [INFO] line is ever written.
C12_VerboseProgress ==
    Cli =>
        /\ ~verbose => Infos(err) = {}
        /\ Rejected => Infos(err) = {}
        /\ pc \in {"validate_source", "get_prompt", "log_verbose"} =>
              Infos(err) = {}
        /\ pc = "execute" =>
              /\ ~Did(events, "environ.get")
              /\ ~Did(events, "genai.Client")
              /\ Requests(events) = {}
        /\ (verbose /\ ~Rejected
                /\ pc \in {"execute", "output", "print", "except", "exit"}) =>
              /\ Len(err) >= 2
              /\ err[1] = ModelLine
              /\ err[2] = SearchLine
        /\ \A i \in 1..Len(err) :
              err[i] = CompletedLine =>
                  /\ i = 3
                  /\ verbose
                  /\ result.some
                  /\ ~exc.some
                  /\ pc \in {"print", "exit"}
        /\ (verbose /\ pc = "print") =>
              /\ err = <<ModelLine, SearchLine, CompletedLine>>
              /\ out = <<>>
        /\ (verbose /\ out # <<>>) =>
              err = <<ModelLine, SearchLine, CompletedLine>>
        /\ (pc = "output") => CompletedLine \notin {err[i] : i \in 1..Len(err)}

W_C12 ==
    /\ pc = "print"
    /\ verbose
    /\ no_search_tool
    /\ err = <<ModelLine, SearchLine, CompletedLine>>
    /\ out = <<>>

\* The entries of the first candidate's URL-context metadata, <<>> when the
\* response has no candidates, no such substructure or no entry list.
UrlEntriesOf(response) ==
    IF /\ Truthy(response.candidates)
       /\ hasattr(Some(response.candidates.v[1]), "url_context_metadata")
       /\ response.candidates.v[1].url_context_metadata.some
       /\ hasattr(response.candidates.v[1].url_context_metadata,
                  "url_metadata")
       /\ response.candidates.v[1].url_context_metadata.v.url_metadata.some
    THEN response.candidates.v[1].url_context_metadata.v.url_metadata.v
    ELSE <<>>

\* The value of an entry's field, or the default when the entry has no such
\* field or the field is None.
OrDefault(entry, field, default) ==
    IF field \in DOMAIN entry /\ entry[field].some
    THEN entry[field] ELSE default

\* C13: the result of GeminiClient.query has one UrlMetadata per entry of the
\* first candidate's URL-context metadata, in order, with retrieved_url the
\* entry's URL or "" when it is absent and url_retrieval_status the entry's
\* status or "UNKNOWN" when it is absent, so that neither field is ever None;
\* without entries url_context_metadata is absent, never an empty sequence.
C13_UrlMetadataDefaults ==
    (IsQueryCall /\ ret.raised = "none") =>
        LET entries == UrlEntriesOf(call.outcome.response)
            parsed == ret.value.url_context_metadata
        IN  IF Len(entries) = 0
            THEN ~parsed.some
            ELSE /\ parsed.some
                 /\ Len(parsed.v) = Len(entries)
                 /\ \A i \in 1..Len(entries) :
                       /\ parsed.v[i].retrieved_url.some
                       /\ parsed.v[i].url_retrieval_status.some
                       /\ parsed.v[i].retrieved_url
                              = OrDefault(entries[i], "retrieved_url",
                                          Some(<<>>))
                       /\ parsed.v[i].url_retrieval_status
                              = OrDefault(entries[i], "url_retrieval_status",
                                          Some(<<"UNKNOWN">>))

====
